---- MODULE Spec2Model ----
(***************************************************************************)
(* Model of the KAIEF event feed (server/chat/static/js/app-feed.js, first *)
(* revision in the file, lines 1-543): the session cache (ensureFeed), the *)
(* query pipeline (filterEventsByActiveOption, sortEvents,                 *)
(* filterEventsBySearchTerm, renderFeed), the UI handlers driving them and *)
(* the field extraction of the cards (escapeValue, formatCost,             *)
(* extractEvent); and of the chat of server/chat/static/js/app-chat.js     *)
(* (second revision in the file: sendMessage, buildAssistantResponse and   *)
(* the typing indicator).                                                  *)
(*                                                                         *)
(* Representation.  A JavaScript string is a sequence of characters, a     *)
(* character is a one-symbol TLA+ string; a Hangul syllable is written as  *)
(* its romanised name ("guk", "rip", ...) and is one character.  A raw     *)
(* value is a record [t, v]: t = "undef" (absent or null), "str" (v the    *)
(* characters), "arr" (v the element strings), "obj" (v the value strings  *)
(* of the object, in key order), "rec" (an event record, v its fields),    *)
(* "num" (a number, v its digits).                                         *)
(* Events of the feed are referred to by their index in EventPool; an      *)
(* event array is a sequence of indices.                                   *)
(***************************************************************************)
EXTENDS Integers, Sequences, FiniteSets, TLC

VARIABLES
    currentLang,          \* app-feed.js:3
    feedLoaded,           \* app-feed.js:22
    cachedEvents,         \* app-feed.js:23
    activeFeedFilter,     \* app-feed.js:24
    activeSort,           \* app-feed.js:25
    activeSearchTerm,     \* app-feed.js:26
    activeSearchTermRaw,  \* app-feed.js:27
    feedList,             \* children of #feedList (skeletons or cards)
    feedMessage,          \* content of #feedMessage
    feedFootnote,         \* content of #feedFootnote
    searchInputValue,     \* #feedSearch .value
    searchClearHidden,    \* #feedSearchClear .hidden
    pending,              \* tokens of the fetches of /events in flight
    issued,               \* number of fetches issued so far in the session
    cacheToken,           \* history: token of the fetch cachedEvents came from
    lastGood,             \* history: last completed successful response
    lastOp,               \* history: the handler that ran last
    preSearch,            \* history: the list rendered before a search began
    retried,              \* history: the retry button has reloaded the page
    extractArgs,          \* the arguments (ev, lang) of a call of extractEvent
    extracted,            \* what that call returned
    reExtracted,          \* extractEvent of the result fed back in as an event
    parseArgs,            \* the argument of a call of parseEventDateValue
    parseResult,          \* what that call returned
    input,                \* app-chat.js: #input .value
    chatHistory,          \* app-chat.js:358
    chatList,             \* app-chat.js: the rows of #chatList
    typingEl,             \* app-chat.js:359 (0: null, else the row it refers to)
    inflight,             \* the calls of sendMessage awaiting POST /api/chat
    sent,                 \* number of requests sent so far
    chatOp                \* history: the chat handler that ran last

vars == <<currentLang, feedLoaded, cachedEvents, activeFeedFilter, activeSort,
          activeSearchTerm, activeSearchTermRaw, feedList, feedMessage,
          feedFootnote, searchInputValue, searchClearHidden, pending, issued,
          cacheToken, lastGood, lastOp, preSearch, retried,
          input, chatHistory, chatList, typingEl, inflight, sent, chatOp,
          extractArgs, extracted, reExtracted, parseArgs, parseResult>>

xvars == <<extractArgs, extracted, reExtracted>>
pvars == <<parseArgs, parseResult>>

cvars == <<input, chatHistory, chatList, typingEl, inflight, sent, chatOp>>

\* the variables the handlers of the feed page leave alone
sideVars == <<xvars, pvars, cvars>>

----------------------------------------------------------------------------
(* Strings *)

Digits == {"0", "1", "2", "3", "4", "5", "6", "7", "8", "9"}

DigitVal == [c \in Digits |->
    CASE c = "0" -> 0 [] c = "1" -> 1 [] c = "2" -> 2 [] c = "3" -> 3
      [] c = "4" -> 4 [] c = "5" -> 5 [] c = "6" -> 6 [] c = "7" -> 7
      [] c = "8" -> 8 [] c = "9" -> 9]

\* String.prototype.toLowerCase, per character
toLowerChar(c) ==
    CASE c = "A" -> "a" [] c = "B" -> "b" [] c = "C" -> "c"
      [] c = "E" -> "e" [] c = "F" -> "f" [] c = "N" -> "n"
      [] c = "O" -> "o" [] c = "R" -> "r" [] c = "T" -> "t" [] c = "U" -> "u"
      [] c = "Z" -> "z"
      [] OTHER -> c

toLowerCase(s) == [i \in 1..Len(s) |-> toLowerChar(s[i])]

RECURSIVE TrimLeft(_)
TrimLeft(s) == IF s # <<>> /\ Head(s) = " " THEN TrimLeft(Tail(s)) ELSE s

RECURSIVE TrimRight(_)
TrimRight(s) ==
    IF s # <<>> /\ s[Len(s)] = " " THEN TrimRight(SubSeq(s, 1, Len(s) - 1)) ELSE s

\* String.prototype.trim
trim(s) == TrimRight(TrimLeft(s))

\* String.prototype.includes
includes(hay, needle) ==
    \E i \in 1..(Len(hay) - Len(needle) + 1) :
        SubSeq(hay, i, i + Len(needle) - 1) = needle

\* Array.prototype.join
RECURSIVE join(_, _)
join(parts, sep) ==
    IF parts = <<>> THEN <<>>
    ELSE IF Len(parts) = 1 THEN parts[1]
    ELSE parts[1] \o sep \o join(Tail(parts), sep)

----------------------------------------------------------------------------
(* Raw values *)

Undef == [t |-> "undef", v |-> <<>>]
Str(s) == [t |-> "str", v |-> s]
Arr(a) == [t |-> "arr", v |-> a]
Obj(a) == [t |-> "obj", v |-> a]
Rec(fields) == [t |-> "rec", v |-> fields]
\* a number, v its decimal digits
Num(digits) == [t |-> "num", v |-> digits]

ObjectObject ==
    <<"[", "o", "b", "j", "e", "c", "t", " ", "O", "b", "j", "e", "c", "t", "]">>

\* String(x) for a defined value
JsString(x) ==
    CASE x.t = "str" -> x.v
      [] x.t = "arr" -> join(x.v, <<",">>)
      [] x.t = "obj" -> ObjectObject
      [] x.t = "rec" -> ObjectObject
      [] x.t = "num" -> x.v
      [] OTHER -> <<"u", "n", "d", "e", "f", "i", "n", "e", "d">>

\* JavaScript truthiness
Truthy(x) ==
    CASE x.t = "str" -> x.v # <<>>
      [] x.t = "arr" -> TRUE
      [] x.t = "obj" -> TRUE
      [] x.t = "rec" -> TRUE
      [] x.t = "num" -> x.v # <<"0">>
      [] OTHER -> FALSE

\* a || b
Or(a, b) == IF Truthy(a) THEN a ELSE b

\* a ?? b
Coalesce(a, b) == IF a.t = "undef" THEN b ELSE a

\* typeof x === 'object' (null is excluded by the truthiness test before it)
IsObject(x) == x.t \in {"arr", "obj", "rec"}

\* ev.f: the field of a record, undefined on any other value
Field(ev, f) == IF ev.t = "rec" THEN ev.v[f] ELSE Undef

\* String(x || '')
StringOrEmpty(x) == IF Truthy(x) THEN JsString(x) ELSE <<>>

----------------------------------------------------------------------------
(* Date heuristic parser *)

Seps == {".", "-", "/", " "}

\* the character substitutions of parseEventDateValue's normalisation:
\* year/month/day markers -> ".", "~" -> " ", anything outside [0-9.\-/ ] -> " "
normalizeChar(c) ==
    IF c \in {"nyeon", "wol", "il"} THEN "."
    ELSE IF c \in Digits \cup Seps THEN c
    ELSE " "

\* .replace(/\s+/g, ' ')
RECURSIVE collapseSpaces(_)
collapseSpaces(s) ==
    IF Len(s) < 2 THEN s
    ELSE IF s[1] = " " /\ s[2] = " " THEN collapseSpaces(Tail(s))
    ELSE <<s[1]>> \o collapseSpaces(Tail(s))

normalizeDateText(str) ==
    trim(collapseSpaces([i \in 1..Len(str) |-> normalizeChar(str[i])]))

IsDigitAt(s, i) == i >= 1 /\ i <= Len(s) /\ s[i] \in Digits
IsSepAt(s, i) == i >= 1 /\ i <= Len(s) /\ s[i] \in Seps

\* Number() of the digits s[i..j]
RECURSIVE NumberOf(_, _, _)
NumberOf(s, i, j) ==
    IF j < i THEN 0 ELSE 10 * NumberOf(s, i, j - 1) + DigitVal[s[j]]

\* (\d{1,2}) at the end of a pattern, starting at i: greedy
DayEnd(s, i) == IF IsDigitAt(s, i + 1) THEN i + 1 ELSE i

\* (\d{1,2})[.\-/ ](\d{1,2}) anchored at i: <<matched, month, day>>
MonthDayAt(s, i) ==
    IF IsDigitAt(s, i) /\ IsDigitAt(s, i + 1) /\ IsSepAt(s, i + 2) /\ IsDigitAt(s, i + 3)
    THEN <<TRUE, NumberOf(s, i, i + 1), NumberOf(s, i + 3, DayEnd(s, i + 3))>>
    ELSE IF IsDigitAt(s, i) /\ IsSepAt(s, i + 1) /\ IsDigitAt(s, i + 2)
    THEN <<TRUE, NumberOf(s, i, i), NumberOf(s, i + 2, DayEnd(s, i + 2))>>
    ELSE <<FALSE, 0, 0>>

\* (\d{4})[.\-/ ](\d{1,2})[.\-/ ](\d{1,2}) anchored at i
FullAt(s, i) ==
    (\A k \in i..(i + 3) : IsDigitAt(s, k)) /\ IsSepAt(s, i + 4)
        /\ MonthDayAt(s, i + 5)[1]

\* (\d{4})(\d{2})(\d{2}) anchored at i
CompactAt(s, i) == \A k \in i..(i + 7) : IsDigitAt(s, k)

FallbackAt(s, i) == MonthDayAt(s, i)[1]

\* whether the pattern named `pattern` matches at position i
PatternAt(s, i, pattern) ==
    CASE pattern = "full" -> FullAt(s, i)
      [] pattern = "compact" -> CompactAt(s, i)
      [] OTHER -> FallbackAt(s, i)

\* String.prototype.match: the leftmost position where the pattern
\* matches, 0 when none
FirstIndex(s, pattern) ==
    IF \E i \in 1..Len(s) : PatternAt(s, i, pattern)
    THEN CHOOSE i \in 1..Len(s) :
            PatternAt(s, i, pattern) /\ \A j \in 1..(i - 1) : ~PatternAt(s, j, pattern)
    ELSE 0

\* new Date().getFullYear()
ReferenceYear == 2026

IsLeap(y) == (y % 4 = 0 /\ y % 100 # 0) \/ y % 400 = 0

DaysBeforeMonth(y, m) ==
    LET cum == <<0, 31, 59, 90, 120, 151, 181, 212, 243, 273, 304, 334>>
    IN  cum[m + 1] + (IF m >= 2 /\ IsLeap(y) THEN 1 ELSE 0)

\* new Date(year, monthIndex, day) as a day number: month and day overflow
\* roll over, and a year 0..99 means 1900 + year
NewDate(year, monthIndex, day) ==
    LET y0 == IF year >= 0 /\ year <= 99 THEN 1900 + year ELSE year
        y  == y0 + (monthIndex \div 12)
        m  == monthIndex % 12
        p  == y - 1
    IN  365 * p + (p \div 4) - (p \div 100) + (p \div 400)
            + DaysBeforeMonth(y, m) + day

NullDate == [ok |-> FALSE, at |-> 0]
SomeDate(n) == [ok |-> TRUE, at |-> n]

\* new Date(year, month - 1, day) for the captured month and day
DateOf(year, md) == SomeDate(NewDate(year, md[2] - 1, md[3]))

\* variant: the month-day pattern is tried first
FromMatches_FallbackFirst(normalized, full, compact, fallback) ==
    IF fallback # 0
    THEN DateOf(ReferenceYear, MonthDayAt(normalized, fallback))
    ELSE IF full # 0
    THEN DateOf(NumberOf(normalized, full, full + 3), MonthDayAt(normalized, full + 5))
    ELSE IF compact # 0
    THEN SomeDate(NewDate(NumberOf(normalized, compact, compact + 3),
                          NumberOf(normalized, compact + 4, compact + 5) - 1,
                          NumberOf(normalized, compact + 6, compact + 7)))
    ELSE NullDate

\* the three patterns in order, given where each first matches (0: nowhere)
FromMatches(normalized, full, compact, fallback) ==
    IF full # 0
    THEN DateOf(NumberOf(normalized, full, full + 3), MonthDayAt(normalized, full + 5))
    ELSE IF compact # 0
    THEN SomeDate(NewDate(NumberOf(normalized, compact, compact + 3),
                          NumberOf(normalized, compact + 4, compact + 5) - 1,
                          NumberOf(normalized, compact + 6, compact + 7)))
    ELSE IF fallback # 0
    THEN DateOf(ReferenceYear, MonthDayAt(normalized, fallback))
    ELSE NullDate

MatchPatterns(normalized) ==
    FromMatches(normalized, FirstIndex(normalized, "full"),
                FirstIndex(normalized, "compact"), FirstIndex(normalized, "fallback"))

ParseTrimmed(str) ==
    IF str = <<>> THEN NullDate ELSE MatchPatterns(normalizeDateText(str))

parseEventDateValue(value) ==
    IF ~Truthy(value) THEN NullDate ELSE ParseTrimmed(trim(JsString(value)))

DateCandidates ==
    <<"datetime", "period", "date", "start_date", "startDate", "begin",
      "created_at", "createdAt", "updated_at", "updatedAt">>

\* the loop of getEventSortDate from candidate k on: the first that parses
RECURSIVE FirstParsed(_, _)
RECURSIVE ParsedOrNext(_, _, _)
ParsedOrNext(parsed, ev, k) == IF parsed.ok THEN parsed ELSE FirstParsed(ev, k + 1)

FirstParsed(ev, k) ==
    IF k > Len(DateCandidates) THEN NullDate
    ELSE ParsedOrNext(parseEventDateValue(ev[DateCandidates[k]]), ev, k)

getEventSortDate(ev) == FirstParsed(ev, 1)

----------------------------------------------------------------------------
(* Events received from GET /events *)

Fields ==
    {"title", "title_en", "description", "deep_data", "overview", "host", "host_en",
     "organization", "category", "place", "place_en", "location", "tags", "keywords",
     "period", "period_en", "state", "status", "cost", "url",
     "datetime", "date", "start_date", "startDate", "begin",
     "created_at", "createdAt", "updated_at", "updatedAt"}

NoFields == [f \in Fields |-> Undef]

\* the institution names of feedFilterOptions, one character per syllable
NMOK  == <<"guk", "rip", "jung", "ang", "bak", "mul", "gwan">>
NLIB  == <<"guk", "rip", "jung", "ang", "do", "seo", "gwan">>
MMCA  == <<"guk", "rip", "hyeon", "dae", "mi", "sul", "gwan">>
GUGAK == <<"guk", "rip", "guk", "ak", "won">>
FOLK  == <<"guk", "rip", "min", "sok", "bak", "mul", "gwan">>

feedFilterOptions ==
    << [id |-> "all",   match |-> <<>>],
       [id |-> "nmok",  match |-> <<NMOK>>],
       [id |-> "nlib",  match |-> <<NLIB>>],
       [id |-> "mmca",  match |-> <<MMCA>>],
       [id |-> "gugak", match |-> <<GUGAK>>],
       [id |-> "folk",  match |-> <<FOLK>> ] >>

FilterIds == {feedFilterOptions[k].id : k \in 1..Len(feedFilterOptions)}

SortKeys == {"recent", "title"}
Langs == {"ko", "en"}

\* the event records the modelled backend can return
EventPool ==
    << [NoFields EXCEPT !.title = Str(<<"A", "b">>), !.host = Str(NMOK),
                        !.period = Str(<<"2", "0", "2", "5", ".", "0", "3", ".", "1", "4">>),
                        !.description = Str(<<"c", "d">>)],
       [NoFields EXCEPT !.title = Str(<<"a", "b">>), !.host = Str(NMOK),
                        !.deep_data = Obj(<<<<"q">>>>)],
       [NoFields EXCEPT !.title = Str(<<"Z", "e", "d">>), !.organization = Str(MMCA),
                        !.date = Str(<<"0", "3", ".", "1", "4">>)],
       [NoFields EXCEPT !.title = Str(<<"b">>), !.host = Str(NMOK),
                        !.datetime = Str(<<"2", "0", "2", "5", "-", "3", "-", "1", "4">>),
                        !.tags = Arr(<<<<"t", "g">>>>)],
       [NoFields EXCEPT !.title = Str(<<"N", "o">>), !.host = Str(<<"x">>),
                        !.keywords = Arr(<<<<"k">>, <<"t", "g">>>>)],
       [NoFields EXCEPT !.title = Str(<<"c">>), !.host = Str(FOLK),
                        !.created_at = Str(<<"2", "0", "2", "4", "1", "2", "3", "1">>)],
       [NoFields EXCEPT !.title = Str(<<"B">>), !.host = Str(<<"x">>)],
       [NoFields EXCEPT !.title = Str(<<"A">>), !.host = Str(<<"x">>)] >>

EventIds == 1..Len(EventPool)

\* the longest event array a response carries
MaxLen == 4

Prefix(a) == SubSeq(a, 1, IF Len(a) < MaxLen THEN Len(a) ELSE MaxLen)

\* the event arrays the modelled backend can return
ResponseArrays ==
    {Prefix(a) : a \in {<<>>, <<1, 2, 4, 3, 5, 6>>, <<4, 5, 2, 1, 6, 3>>}}

\* the longest event array the sort is exercised on
MaxSortLen == 3

RECURSIVE DistinctSeqs(_)
DistinctSeqs(n) ==
    IF n = 0 THEN {<<>>}
    ELSE {Append(a, e) : a \in DistinctSeqs(n - 1),
                         e \in EventIds} \cup DistinctSeqs(n - 1)

\* event arrays in every order: up to MaxSortLen distinct pool events
SortArrays ==
    {a \in DistinctSeqs(MaxSortLen) :
        \A i, j \in 1..Len(a) : i # j => a[i] # a[j]}

----------------------------------------------------------------------------
(* Field extraction: escapeHTML, escapeValue, formatCost, extractEvent *)

\* the status words of translations.ko.state
KoOngoing  == <<"jin", "haeng", "jung">>
KoFinished == <<"ma", "gam">>
KoUpcoming == <<"ye", "jeong">>

\* the entries of translations[lang] that extractEvent reads
Translations(lang) ==
    IF lang = "en"
    THEN [unknownTitle |-> <<"U", "n", "t", "i", "t", "l", "e", "d", " ", "e", "v", "e", "n", "t">>,
          costFree |-> <<"F", "r", "e", "e">>,
          ongoing |-> <<"O", "n", "g", "o", "i", "n", "g">>,
          finished |-> <<"F", "i", "n", "i", "s", "h", "e", "d">>,
          upcoming |-> <<"U", "p", "c", "o", "m", "i", "n", "g">>]
    ELSE [unknownTitle |-> <<"je", "mok", " ", "mi", "sang">>,
          costFree |-> <<"mu", "ryo">>,
          ongoing |-> KoOngoing,
          finished |-> KoFinished,
          upcoming |-> KoUpcoming]

\* the replacement escapeHTML makes for one character
EscapeChar(c) ==
    CASE c = "&"  -> <<"&", "a", "m", "p", ";">>
      [] c = "<"  -> <<"&", "l", "t", ";">>
      [] c = ">"  -> <<"&", "g", "t", ";">>
      [] c = "\"" -> <<"&", "q", "u", "o", "t", ";">>
      [] c = "'"  -> <<"&", "#", "0", "3", "9", ";">>
      [] OTHER -> <<c>>

RECURSIVE escapeHTML(_)
escapeHTML(str) ==
    IF str = <<>> THEN <<>> ELSE EscapeChar(Head(str)) \o escapeHTML(Tail(str))

\* the return of escapeValue once String(raw).trim() is known
EscapedOr(text, fallback) ==
    IF text = <<>> THEN escapeHTML(fallback) ELSE escapeHTML(text)

\* variant: the fallback is never used
escapeValue_NoFallback(value, fallback) ==
    escapeHTML(trim(JsString(Coalesce(value, Str(<<>>)))))

\* escapeValue(value, fallback); no fallback is the empty fallback
escapeValue(value, fallback) ==
    EscapedOr(trim(JsString(Coalesce(value, Str(<<>>)))), fallback)

\* variant: the cost is compared without lower-casing it
CostOf_CaseSensitive(trimmed, lang) ==
    IF trimmed = <<>> THEN <<>>
    ELSE IF trimmed \in {<<"0">>, <<"mu", "ryo">>, <<"f", "r", "e", "e">>}
    THEN escapeHTML(Translations(lang).costFree)
    ELSE escapeHTML(trimmed)

\* the values formatCost reads as free of charge
FreeWords == {<<"0">>, <<"mu", "ryo">>, <<"f", "r", "e", "e">>}

CostOf(trimmed, lang) ==
    IF trimmed = <<>> THEN <<>>
    ELSE IF toLowerCase(trimmed) \in FreeWords THEN escapeHTML(Translations(lang).costFree)
    ELSE escapeHTML(trimmed)

formatCost(value, lang) ==
    IF value.t = "undef" THEN <<>> ELSE CostOf(trim(JsString(value)), lang)

\* the translation of the status for the language en (strict equality)
StatusOf(status, lang) ==
    IF lang # "en" THEN status
    ELSE IF status = Str(KoOngoing) THEN Str(Translations(lang).ongoing)
    ELSE IF status = Str(KoFinished) THEN Str(Translations(lang).finished)
    ELSE IF status = Str(KoUpcoming) THEN Str(Translations(lang).upcoming)
    ELSE status

\* ev.f_en ?? ev.f for the language en, ev.f otherwise
Localized(ev, f, f_en, lang) ==
    IF lang = "en" THEN Coalesce(Field(ev, f_en), Field(ev, f)) ELSE Field(ev, f)

ResultFields == {"title", "schedule", "location", "host", "status", "cost", "link"}
NoResult == [f \in ResultFields |-> <<>>]

\* the values extractEvent can return; NotRun: no call has returned yet
NotRun == [state |-> "none", f |-> NoResult]
Null == [state |-> "null", f |-> NoResult]
Value(fields) == [state |-> "value", f |-> fields]

extractEvent(ev, lang) ==
    IF ~Truthy(ev) \/ ~IsObject(ev) THEN Null
    ELSE Value(
        [title    |-> escapeValue(Localized(ev, "title", "title_en", lang),
                                  Translations(lang).unknownTitle),
         schedule |-> escapeValue(Localized(ev, "period", "period_en", lang), <<>>),
         location |-> escapeValue(Localized(ev, "place", "place_en", lang), <<>>),
         host     |-> escapeValue(Localized(ev, "host", "host_en", lang), <<>>),
         status   |-> escapeValue(
                          StatusOf(Or(Or(Field(ev, "state"), Field(ev, "status")),
                                      Str(<<>>)), lang), <<>>),
         cost     |-> formatCost(Field(ev, "cost"), lang),
         link     |-> escapeValue(Or(Field(ev, "url"), Str(<<>>)), <<>>)])

\* an extracted event fed back in as a raw event: each string field under
\* the base key it was read from
AsRaw(f) ==
    Rec([NoFields EXCEPT !.title = Str(f.title), !.period = Str(f.schedule),
                         !.place = Str(f.location), !.host = Str(f.host),
                         !.state = Str(f.status), !.cost = Str(f.cost),
                         !.url = Str(f.link)])

\* the field values of the event records extractEvent is exercised on
TitleValues   == {Undef, Str(<<" ">>), Str(<<"T">>), Str(<<"a", "&", "b">>)}
TitleEnValues == {Undef, Str(<<>>), Str(<<" ">>), Str(<<"E">>)}
PeriodValues  == {Undef, Str(<<"P">>)}
PeriodEnValues == {Undef, Str(<<"Q">>)}
DateValues    == {Undef, Str(<<"0", "3", ".", "1", "4">>)}
StateValues   == {Undef, Str(<<" ">>), Str(KoOngoing), Str(<<"x">>)}
StatusValues  == {Undef, Str(KoUpcoming), Str(KoFinished)}
CostValues    == {Undef, Str(<<"0">>), Str(<<"5">>)}

\* the costs formatCost is exercised on, on an otherwise plain record
CostOnlyValues ==
    {Num(<<"0">>), Num(<<"5">>), Str(<<>>), Str(<<" ">>), Str(<<" ", "0", " ">>),
     Str(<<"mu", "ryo">>), Str(<<"f", "r", "e", "e">>), Str(<<" ", "F", "R", "E", "E">>),
     Str(<<"F", "r", "e", "e">>), Str(<<" ", "5", " ">>), Str(<<"5", "&">>),
     Str(<<"f", "r", "e", "e", "5">>), Arr(<<<<"0">>>>)}

CostRecords ==
    {Rec([NoFields EXCEPT !.title = Str(<<"T">>), !.cost = k]) : k \in CostOnlyValues}

TitleRecords ==
    {Rec([NoFields EXCEPT !.title = a, !.title_en = b, !.period = c, !.period_en = d,
                          !.date = e[1], !.datetime = e[2], !.state = g, !.status = h,
                          !.cost = k]) :
        a \in TitleValues, b \in TitleEnValues, c \in PeriodValues, d \in PeriodEnValues,
        e \in {<<Undef, Undef>>} \cup {<<x, Undef>> : x \in DateValues}
                                 \cup {<<Undef, x>> : x \in DateValues},
        g \in StateValues, h \in StatusValues, k \in CostValues}

RawRecords == TitleRecords \cup CostRecords

\* values that are not event records: null, strings, arrays
NonRecords == {Undef, Str(<<>>), Str(<<"T">>), Arr(<<>>), Arr(<<<<"T">>>>)}

ExtractInputs == RawRecords \cup NonRecords

NoArgs == [ev |-> Undef, lang |-> "-"]

\* no call of extractEvent is being followed
ExtractIdle == extractArgs = NoArgs /\ extracted = NotRun /\ reExtracted = NotRun

----------------------------------------------------------------------------
(* Date texts parseEventDateValue is exercised on *)

DigitChar == <<"0", "1", "2", "3", "4", "5", "6", "7", "8", "9">>
TwoDigits(n) == <<DigitChar[(n \div 10) + 1], DigitChar[(n % 10) + 1]>>
ShortDigits(n) == IF n < 10 THEN <<DigitChar[n + 1]>> ELSE TwoDigits(n)
FourDigits(n) == TwoDigits(n \div 100) \o TwoDigits(n % 100)
Padded(n, pad) == IF pad THEN TwoDigits(n) ELSE ShortDigits(n)

DateYears == {2024, 2025, 2026}
DateMonths == {3, 12}
DateDays == {4, 14, 31}

\* what may follow the date in the text: nothing, or the end of a range
DateSuffixes ==
    {<<>>, <<"~">> \o FourDigits(2027) \o <<".", "0", "1", ".", "0", "2">>}

DateArgs(text, form, y, m, d) ==
    [text |-> Str(text), form |-> form, y |-> y, m |-> m, d |-> d]

\* YYYY-sep-MM-sep-DD with each separator, padded or not, and the date
\* written with the Korean year, month and day markers
FullDates ==
    {DateArgs(FourDigits(y) \o <<sep>> \o Padded(m, pm) \o <<sep>> \o Padded(d, pd) \o suffix,
              "full", y, m, d) :
        y \in DateYears, m \in DateMonths, d \in DateDays, sep \in Seps,
        pm \in BOOLEAN, pd \in BOOLEAN, suffix \in DateSuffixes}
    \cup {DateArgs(FourDigits(y) \o <<"nyeon">> \o ShortDigits(m) \o <<"wol">>
                      \o ShortDigits(d) \o <<"il">>, "full", y, m, d) :
             y \in DateYears, m \in DateMonths, d \in DateDays}

\* YYYYMMDD, alone or as the start of a range of compact dates
CompactDates ==
    {DateArgs(FourDigits(y) \o TwoDigits(m) \o TwoDigits(d) \o suffix, "compact", y, m, d) :
        y \in DateYears, m \in DateMonths, d \in DateDays,
        suffix \in {<<>>, <<"~">> \o FourDigits(2027) \o <<"0", "1", "0", "2">>}}

\* MM-sep-DD
MonthDayDates ==
    {DateArgs(Padded(m, pm) \o <<sep>> \o Padded(d, pd), "monthDay", ReferenceYear, m, d) :
        m \in DateMonths, d \in DateDays, sep \in Seps, pm \in BOOLEAN, pd \in BOOLEAN}

NoDate(value) == [text |-> value, form |-> "none", y |-> 0, m |-> 0, d |-> 0]

\* values without a date pattern: absent, empty, blank, words, a year or a
\* day alone, and a date whose markers are followed by spaces
NoDates ==
    {NoDate(Undef), NoDate(Num(<<"0">>)), NoDate(Num(FourDigits(2025))),
     NoDate(Str(<<>>)), NoDate(Str(<<" ">>)),
     NoDate(Str(<<"n", "o", " ", "d", "a", "t", "e", " ", "h", "e", "r", "e">>)),
     NoDate(Str(FourDigits(2025))), NoDate(Str(<<"1", "4">>)),
     NoDate(Str(FourDigits(2025) \o <<"nyeon", " ", "3", "wol", " ", "1", "4", "il">>))}

ParseInputs == FullDates \cup CompactDates \cup MonthDayDates \cup NoDates

NoParseArgs == NoDate(Undef)

\* the value of `parseResult` before parseEventDateValue has returned
NotParsed == [ok |-> FALSE, at |-> -1]

\* no call of parseEventDateValue is being followed
ParseIdle == parseArgs = NoParseArgs /\ parseResult = NotParsed

----------------------------------------------------------------------------
(* Query pipeline *)

\* the haystack filterEventsByActiveOption builds for one event
FilterHaystack(ev) ==
    toLowerCase(StringOrEmpty(ev.host) \o <<" ">> \o StringOrEmpty(ev.organization)
                \o <<" ">> \o StringOrEmpty(ev.title))

\* keywords.some(...) of filterEventsByActiveOption for one option and event
MatchesOption(option, ev) ==
    \E k \in 1..Len(option.match) :
        includes(FilterHaystack(ev), toLowerCase(option.match[k]))

\* MatchesOption for every option and pool event
OptionTable ==
    [k \in 1..Len(feedFilterOptions), e \in EventIds |->
        MatchesOption(feedFilterOptions[k], EventPool[e])]

\* feedFilterOptions.find(opt => opt.id === fid): its index, 0 when none
FindOption(fid) ==
    IF \E k \in 1..Len(feedFilterOptions) : feedFilterOptions[k].id = fid
    THEN CHOOSE k \in 1..Len(feedFilterOptions) :
             /\ feedFilterOptions[k].id = fid
             /\ \A j \in 1..(k - 1) : feedFilterOptions[j].id # fid
    ELSE 0

\* variant: an option without keywords is matched like any other
PassThrough_OnlyUnknownId(at) == at = 0

\* !option || !option.match || option.match.length === 0, for the index found
PassThrough(at) == at = 0 \/ Len(feedFilterOptions[at].match) = 0

KeepMatching(at, events) ==
    IF PassThrough(at) THEN events
    ELSE SelectSeq(events, LAMBDA e : OptionTable[at, e])

\* filterEventsByActiveOption for the filter id `fid`
FilterBy(fid, events) == KeepMatching(FindOption(fid), events)

filterEventsByActiveOption(events) == FilterBy(activeFeedFilter, events)

\* the fields filterEventsBySearchTerm joins into its haystack, in order
SearchParts ==
    <<"title", "description", "deep_data", "overview", "host", "organization",
      "category", "place", "location">>

SearchHaystack(ev) ==
    join([k \in 1..Len(SearchParts) |-> toLowerCase(StringOrEmpty(ev[SearchParts[k]]))],
         <<" ">>)

\* SearchHaystack for every pool event
HaystackTable == [e \in EventIds |-> SearchHaystack(EventPool[e])]

\* filterEventsBySearchTerm for the term `term`
SearchBy(term, events) ==
    IF term = <<>> THEN events
    ELSE SelectSeq(events, LAMBDA e : includes(HaystackTable[e], term))

filterEventsBySearchTerm(events) == SearchBy(activeSearchTerm, events)

----------------------------------------------------------------------------
(* Ordering *)

Hangul ==
    {"guk", "rip", "jung", "ang", "bak", "mul", "gwan", "do", "seo", "hyeon",
     "dae", "mi", "sul", "ak", "won", "min", "sok", "nyeon", "wol", "il"}

\* the collation order of the characters the model uses
Collation ==
    <<" ", "-", ",", ".", "/", "[", "]", "~",
      "0", "1", "2", "3", "4", "5", "6", "7", "8", "9",
      "a", "b", "c", "d", "e", "f", "g", "i", "j", "k", "n", "o", "q", "t",
      "u", "x", "z",
      "ak", "ang", "bak", "dae", "do", "guk", "gwan", "hyeon", "il", "jung",
      "mi", "min", "mul", "nyeon", "rip", "seo", "sok", "sul", "wol", "won">>

\* primary collation weight: case is ignored (sensitivity: 'base'); the ko
\* locale orders Hangul before Latin, the en locale after it
Weight(c, locale) ==
    LET lc == toLowerChar(c)
        at == CHOOSE k \in 1..Len(Collation) : Collation[k] = lc
    IN  IF locale = "ko" /\ lc \in Hangul THEN at - Len(Collation) ELSE at

\* a.localeCompare(b, locale, { sensitivity: 'base' }): -1, 0 or 1
RECURSIVE localeCompare(_, _, _)
localeCompare(a, b, locale) ==
    IF a = <<>> /\ b = <<>> THEN 0
    ELSE IF a = <<>> THEN -1
    ELSE IF b = <<>> THEN 1
    ELSE IF Weight(a[1], locale) < Weight(b[1], locale) THEN -1
    ELSE IF Weight(a[1], locale) > Weight(b[1], locale) THEN 1
    ELSE localeCompare(Tail(a), Tail(b), locale)

\* hostCompare when it decides, the title comparison otherwise
HostThenTitle(hostCompare, a, b, locale) ==
    IF hostCompare # 0 THEN hostCompare
    ELSE localeCompare(StringOrEmpty(a.title), StringOrEmpty(b.title), locale)

\* variant: the hosts alone are compared
alphabeticalSort_HostOnly(a, b, locale) ==
    localeCompare(StringOrEmpty(Or(a.host, a.organization)),
                  StringOrEmpty(Or(b.host, b.organization)), locale)

alphabeticalSort(a, b, locale) ==
    HostThenTitle(localeCompare(StringOrEmpty(Or(a.host, a.organization)),
                                StringOrEmpty(Or(b.host, b.organization)), locale),
                  a, b, locale)

\* variant: dated events are compared oldest first
RecentOrder_OldestFirst(dateA, dateB, a, b, locale) ==
    IF dateA.ok /\ dateB.ok THEN dateA.at - dateB.at
    ELSE IF dateA.ok THEN -1
    ELSE IF dateB.ok THEN 1
    ELSE alphabeticalSort(a, b, locale)

\* the comparator of sortEvents under 'recent', given the two sort dates
RecentOrder(dateA, dateB, a, b, locale) ==
    IF dateA.ok /\ dateB.ok THEN dateB.at - dateA.at
    ELSE IF dateA.ok THEN -1
    ELSE IF dateB.ok THEN 1
    ELSE alphabeticalSort(a, b, locale)

recentCompare(a, b, locale) ==
    RecentOrder(getEventSortDate(a), getEventSortDate(b), a, b, locale)

\* the comparator sortEvents uses for the sort key `sort`
compareEvents(sort, a, b, locale) ==
    IF sort = "recent" THEN recentCompare(a, b, locale)
    ELSE alphabeticalSort(a, b, locale)

\* comparator results for every pair of pool events
CompareTable ==
    [sort \in SortKeys, locale \in Langs, a \in EventIds, b \in EventIds |->
        compareEvents(sort, EventPool[a], EventPool[b], locale)]

\* one step of a stable sort: x goes after every element not greater than it
RECURSIVE InsertSorted(_, _, _, _)
InsertSorted(list, x, sort, locale) ==
    IF list = <<>> THEN <<x>>
    ELSE IF CompareTable[sort, locale, list[Len(list)], x] <= 0 THEN Append(list, x)
    ELSE Append(InsertSorted(SubSeq(list, 1, Len(list) - 1), x, sort, locale),
                list[Len(list)])

\* Array.prototype.sort (stable) with compareEvents
RECURSIVE StableSort(_, _, _)
StableSort(list, sort, locale) ==
    IF list = <<>> THEN <<>>
    ELSE InsertSorted(StableSort(SubSeq(list, 1, Len(list) - 1), sort, locale),
                      list[Len(list)], sort, locale)

\* a sortEvents that returns the events in the order received
SortBy_Unsorted(sort, lang, events) == events

\* sortEvents for the sort key `sort` and the language `lang`
SortBy(sort, lang, events) ==
    StableSort(events, IF sort = "recent" THEN "recent" ELSE "title",
               IF lang = "ko" THEN "ko" ELSE "en")

sortEvents(events) == SortBy(activeSort, currentLang, events)

----------------------------------------------------------------------------
(* Rendering *)

SkeletonCard == [kind |-> "skeleton", ev |-> 0, lang |-> "-"]

\* createFeedCard: the card shows event ev as extracted for the language lang
createFeedCard(ev, lang) == [kind |-> "card", ev |-> ev, lang |-> lang]

\* showFeedSkeleton
SkeletonList == [i \in 1..5 |-> SkeletonCard]

\* the DOM renderFeed builds from the searched list
\* ("searchEmpty": the empty state with the search icon and no footnote;
\* translations has no feedSearchEmpty, so its copy is that of feedEmpty)
ViewOf(searched, term, lang) ==
    IF Len(searched) = 0
    THEN [list |-> <<>>,
          message |-> IF term # <<>> THEN "searchEmpty" ELSE "empty",
          footnote |-> IF term # <<>> THEN "" ELSE "footnote"]
    ELSE [list |-> [i \in 1..Len(searched) |-> createFeedCard(searched[i], lang)],
          message |-> "",
          footnote |-> "footnote"]

\* variant: the sorted list is rendered, the search result dropped
Pipeline_IgnoresSearch(events, fid, sort, term, lang) ==
    SortBy(sort, lang, FilterBy(fid, events))

\* filtered, sorted, searched of renderFeed
Pipeline(events, fid, sort, term, lang) ==
    SearchBy(term, SortBy(sort, lang, FilterBy(fid, events)))

\* variant: renderFeed leaves the view as it is
RenderView_KeepsOld(loaded, events, fid, sort, term, lang, old) == old

\* what renderFeed leaves in #feedList, #feedMessage and #feedFootnote
RenderView(loaded, events, fid, sort, term, lang, old) ==
    IF ~loaded THEN old
    ELSE ViewOf(Pipeline(events, fid, sort, term, lang), term, lang)

View == [list |-> feedList, message |-> feedMessage, footnote |-> feedFootnote]

SetView(v) ==
    /\ feedList' = v.list
    /\ feedMessage' = v.message
    /\ feedFootnote' = v.footnote

\* variant: sortEvents sorts the array it is given
ArgumentAfterSort_NoCopy(events, sort, lang) == SortBy(sort, lang, events)

\* the array given to sortEvents once it has returned: the function sorts
\* events.slice(), so its argument keeps its elements and their order
ArgumentAfterSort(events, sort, lang) == events

\* the cachedEvents array after renderFeed: the filter hands the array
\* itself to sortEvents when it passes everything through, a new array
\* otherwise
CacheAfterRender(loaded, events, fid, sort, lang) ==
    IF loaded /\ PassThrough(FindOption(fid))
    THEN ArgumentAfterSort(events, sort, lang)
    ELSE events

\* renderFeed() run in the state the given query variables describe
renderFeed(loaded, events, fid, sort, term, lang) ==
    /\ SetView(RenderView(loaded, events, fid, sort, term, lang, View))
    /\ cachedEvents' = CacheAfterRender(loaded, events, fid, sort, lang)

----------------------------------------------------------------------------
(* Chat (app-chat.js, second revision in the file, lines 344-654): the      *)
(* values of the response field and the assistant message built from them.  *)
(* Further raw values: t = "null" (null, which the chat code tells from     *)
(* undefined), "reason" (an object {ko, en}, v its two values), "payload"   *)
(* (an object {reason, recommended_event}).                                 *)

MaxSends == 2
MaxReplies == 1

JsNull == [t |-> "null", v |-> <<>>]
Reason(ko, en) == [t |-> "reason", v |-> [ko |-> ko, en |-> en]]
Payload(reason, events) ==
    [t |-> "payload", v |-> [reason |-> reason, recommended_event |-> events]]

\* {}
EmptyObject == Obj(<<>>)

\* typeof x === 'object'
TypeofObject(x) == x.t \in {"null", "arr", "obj", "rec", "reason", "payload"}

\* truthiness, with the objects of the chat
ChatTruthy(x) == IF x.t \in {"reason", "payload"} THEN TRUE ELSE Truthy(x)

\* a || b
ChatOr(a, b) == IF ChatTruthy(a) THEN a ELSE b

\* sendMessage: the payload made of data?.response
ResponsePayload(rawResponse) ==
    IF TypeofObject(rawResponse)
    THEN rawResponse
    ELSE Payload(Reason(rawResponse, rawResponse), EmptyObject)

\* payload.name on a payload that is not null
Property(payload, name) == IF payload.t = "payload" THEN payload.v[name] ELSE Undef

\* reasonData?.[key]
ReasonOf(reasonData, key) == IF reasonData.t = "reason" THEN reasonData.v[key] ELSE Undef

ReasonText(reasonData, lang) ==
    IF reasonData.t = "str"
    THEN reasonData
    ELSE ChatOr(ChatOr(ReasonOf(reasonData, lang), ReasonOf(reasonData, "ko")),
                Str(<<>>))

\* formatMultiline(text), line breaks aside
formatMultiline(text) == IF ~ChatTruthy(text) THEN <<>> ELSE escapeHTML(JsString(text))

\* Object.keys(ev).length === 0
NoKeys(ev) ==
    CASE ev.t = "rec" -> \A f \in Fields : ev.v[f] = Undef
      [] ev.t \in {"obj", "arr"} -> ev.v = <<>>
      [] OTHER -> TRUE

\* renderEventCard(ev): the noEvent text or the card of the event
renderEventCard(ev) ==
    IF ~ChatTruthy(ev) \/ NoKeys(ev) \/ ~IsObject(ev) THEN "noEvent" ELSE "event"

\* the events buildAssistantResponse renders
RecommendedEvents(recommended) ==
    IF recommended.t = "arr" THEN recommended.v ELSE <<ChatOr(recommended, EmptyObject)>>

\* buildAssistantResponse(payload): the text and the cards after the header,
\* or the TypeError of payload.reason on null
Thrown == [thrown |-> TRUE, html |-> <<>>, cards |-> <<>>]

buildAssistantResponse(payload, lang) ==
    IF payload.t = "null"
    THEN Thrown
    ELSE LET events == RecommendedEvents(Property(payload, "recommended_event"))
         IN  [thrown |-> FALSE,
              html |-> formatMultiline(ReasonText(Property(payload, "reason"), lang)),
              cards |-> [i \in 1..Len(events) |-> renderEventCard(events[i])]]

\* the rows of #chatList
UserRow(req, html) == [kind |-> "user", req |-> req, html |-> html, cards |-> <<>>]
AssistantRow(req, built) ==
    [kind |-> "assistant", req |-> req, html |-> built.html, cards |-> built.cards]
ErrorRow(req) == [kind |-> "error", req |-> req, html |-> <<>>, cards |-> <<>>]
TypingRow(req) == [kind |-> "typing", req |-> req, html |-> <<>>, cards |-> <<>>]

\* variant: the bubble is not appended
addBubble_Drops(list, row) == list

addBubble(list, row) == Append(list, row)

\* typingEl.remove()
RECURSIVE RemoveRow(_, _)
RemoveRow(list, row) ==
    IF list = <<>> THEN <<>>
    ELSE IF Head(list) = row THEN Tail(list)
    ELSE <<Head(list)>> \o RemoveRow(Tail(list), row)

\* hideTyping(): the list it leaves
hideTyping(list, el) == IF el # 0 THEN RemoveRow(list, TypingRow(el)) ELSE list

\* showTyping(): the list it leaves for the request req
showTyping(list, el, req) == Append(hideTyping(list, el), TypingRow(req))

NoChatOp == [op |-> "init", req |-> 0, ok |-> FALSE, response |-> Undef]

ChatIdle ==
    /\ input = <<>>
    /\ chatHistory = <<>>
    /\ chatList = <<>>
    /\ typingEl = 0
    /\ inflight = {}
    /\ sent = 0
    /\ chatOp = NoChatOp

----------------------------------------------------------------------------
(* Responses to GET /events *)

\* the most fetches of /events issued in one run
MaxRequests == 2

\* kind: "reject" the fetch promise rejects; "malformed" res.json() rejects;
\* "null" the body is the JSON value null; "noarray" the body is an object
\* whose events is not an array; "array" the body is { events: [...] }
Responses ==
    {[kind |-> "reject", status |-> 0, events |-> <<>>]}
    \cup {[kind |-> k, status |-> st, events |-> <<>>] :
             k \in {"malformed", "null", "noarray"}, st \in {200, 500}}
    \cup {[kind |-> "array", status |-> st, events |-> a] :
             st \in {200, 500}, a \in ResponseArrays}

\* variant: a body that fails to parse is taken as an empty object
Resolves_SwallowsParseError(resp) == resp.kind \in {"noarray", "array", "malformed"}

\* the try block of ensureFeed reaches its end: neither await rejects and
\* data.events can be read
Resolves(resp) == resp.kind \in {"noarray", "array"}

\* a response the contract of GET /events calls successful
Successful(resp) == resp.status = 200 /\ resp.kind \in {"noarray", "array"}

NoOp == [op |-> "init", force |-> FALSE, status |-> 0, kind |-> "-", value |-> Undef]
Op(name) == [NoOp EXCEPT !.op = name]

NoSource == [token |-> 0, status |-> 0, kind |-> "-"]
NoGood == [token |-> 0, events |-> <<>>]
NoSnapshot == [valid |-> FALSE, list |-> <<>>]

\* what the handlers that do not search leave alone
KeepSearch ==
    UNCHANGED <<activeSearchTerm, activeSearchTermRaw, searchClearHidden, retried, sideVars>>

----------------------------------------------------------------------------
(* The state after the module has been evaluated (lines 3-543): the state  *)
(* variables are initialised and ensureFeed(false) has issued its fetch.   *)

ModuleInit(lang, sort, token) ==
    /\ currentLang = lang
    /\ feedLoaded = FALSE
    /\ cachedEvents = <<>>
    /\ activeFeedFilter = "all"
    /\ activeSort = sort
    /\ activeSearchTerm = <<>>
    /\ activeSearchTermRaw = <<>>
    /\ searchInputValue = <<>>
    /\ searchClearHidden = TRUE
    /\ feedMessage = "loading"
    /\ feedList = SkeletonList
    /\ feedFootnote = ""
    /\ pending = {token}
    /\ issued = token
    /\ cacheToken = NoSource
    /\ lastGood = NoGood
    /\ lastOp = NoOp
    /\ preSearch = NoSnapshot
    /\ retried = FALSE

Init ==
    /\ \E lang \in Langs, sort \in SortKeys : ModuleInit(lang, sort, 1)
    /\ ExtractIdle /\ ParseIdle /\ ChatIdle

\* variant: the forceReload argument is ignored
NeedsFetch_IgnoresForce(forceReload) == ~feedLoaded

\* the cache cannot answer the call (the negation of line 433's condition)
NeedsFetch(forceReload) == ~(feedLoaded /\ ~forceReload)

\* ensureFeed(forceReload), up to its first await
EnsureFeed(forceReload) ==
    /\ lastOp' = [Op("ensureFeed") EXCEPT !.force = forceReload]
    /\ UNCHANGED <<currentLang, feedLoaded, activeFeedFilter, activeSort,
                   searchInputValue, cacheToken, lastGood>>
    /\ KeepSearch
    /\ IF ~NeedsFetch(forceReload)
       THEN /\ renderFeed(feedLoaded, cachedEvents, activeFeedFilter, activeSort,
                          activeSearchTerm, currentLang)
            /\ UNCHANGED <<pending, issued, preSearch>>
       ELSE /\ issued < MaxRequests
            /\ feedMessage' = "loading"
            /\ feedList' = SkeletonList
            /\ feedFootnote' = feedFootnote
            /\ issued' = issued + 1
            /\ pending' = pending \cup {issued + 1}
            /\ preSearch' = NoSnapshot
            /\ cachedEvents' = cachedEvents

\* ensureFeed after its awaits, for the fetch `token` answered by `resp`
FetchComplete(token, resp) ==
    /\ token \in pending
    /\ pending' = pending \ {token}
    /\ lastOp' = [Op("complete") EXCEPT !.status = resp.status, !.kind = resp.kind]
    /\ lastGood' = IF Successful(resp) THEN [token |-> token, events |-> resp.events]
                   ELSE lastGood
    /\ preSearch' = NoSnapshot
    /\ UNCHANGED <<currentLang, activeFeedFilter, activeSort, searchInputValue, issued>>
    /\ KeepSearch
    /\ IF Resolves(resp)
       THEN /\ feedLoaded' = TRUE
            /\ cacheToken' = [token |-> token, status |-> resp.status, kind |-> resp.kind]
            /\ renderFeed(TRUE, IF resp.kind = "array" THEN resp.events ELSE <<>>,
                          activeFeedFilter, activeSort, activeSearchTerm, currentLang)
       ELSE /\ feedList' = <<>>
            /\ feedMessage' = "error"
            /\ feedFootnote' = ""
            /\ UNCHANGED <<cachedEvents, feedLoaded, cacheToken>>

\* click on the retry button of the error state: location.reload()
Retry ==
    /\ feedMessage = "error"
    /\ issued < MaxRequests
    /\ \E sort \in SortKeys :
        /\ currentLang' = currentLang
        /\ feedLoaded' = FALSE
        /\ cachedEvents' = <<>>
        /\ activeFeedFilter' = "all"
        /\ activeSort' = sort
        /\ activeSearchTerm' = <<>>
        /\ activeSearchTermRaw' = <<>>
        /\ searchInputValue' = <<>>
        /\ searchClearHidden' = TRUE
        /\ feedMessage' = "loading"
        /\ feedList' = SkeletonList
        /\ feedFootnote' = ""
        /\ pending' = {issued + 1}
        /\ issued' = issued + 1
        /\ cacheToken' = NoSource
        /\ lastGood' = NoGood
        /\ lastOp' = Op("retry")
        /\ preSearch' = NoSnapshot
        /\ retried' = TRUE
        /\ UNCHANGED sideVars

----------------------------------------------------------------------------
(* Query handlers *)

\* click on the filter chip of option `fid` (renderFeedFilters, lines 378-382)
FilterClick(fid) ==
    /\ activeFeedFilter' = fid
    /\ renderFeed(feedLoaded, cachedEvents, activeFeedFilter', activeSort,
                  activeSearchTerm, currentLang)
    /\ lastOp' = Op("filter")
    /\ preSearch' = NoSnapshot
    /\ KeepSearch
    /\ UNCHANGED <<currentLang, feedLoaded, activeSort, searchInputValue,
                   pending, issued, cacheToken, lastGood>>

\* change event of the sort select (lines 465-468)
SortChange(value) ==
    /\ activeSort' = (IF value # "" THEN value ELSE "recent")
    /\ renderFeed(feedLoaded, cachedEvents, activeFeedFilter, activeSort',
                  activeSearchTerm, currentLang)
    /\ lastOp' = Op("sort")
    /\ preSearch' = NoSnapshot
    /\ KeepSearch
    /\ UNCHANGED <<currentLang, feedLoaded, activeFeedFilter,
                   searchInputValue, pending, issued, cacheToken, lastGood>>

\* the view holds the result of a render, not a skeleton or the error state
ShowsRender == feedLoaded /\ feedMessage \in {"", "empty", "searchEmpty"}

\* variant: a value that is no string is converted to one
SearchValue_Stringifies(rawValue) == JsString(rawValue)

\* typeof rawValue === 'string' ? rawValue : ''
SearchValue(rawValue) == IF rawValue.t = "str" THEN rawValue.v ELSE <<>>

\* applySearchTerm(rawValue, options) with the search box holding `box`
applySearchTerm(rawValue, forceRender, box) ==
    LET raw == trim(SearchValue(rawValue))
        normalized == toLowerCase(raw)
    IN  /\ activeSearchTermRaw' = raw
        /\ IF normalized = activeSearchTerm
           THEN /\ activeSearchTerm' = activeSearchTerm
                /\ searchClearHidden' = (Len(activeSearchTerm) = 0)
                /\ searchInputValue' = raw
                /\ IF forceRender
                   THEN renderFeed(feedLoaded, cachedEvents, activeFeedFilter, activeSort,
                                   activeSearchTerm, currentLang)
                   ELSE UNCHANGED <<feedList, feedMessage, feedFootnote, cachedEvents>>
                /\ preSearch' = preSearch
           ELSE /\ activeSearchTerm' = normalized
                /\ searchClearHidden' = (Len(normalized) = 0)
                /\ searchInputValue' = box
                /\ renderFeed(feedLoaded, cachedEvents, activeFeedFilter, activeSort,
                              normalized, currentLang)
                /\ preSearch' = IF activeSearchTerm # <<>> THEN preSearch
                                ELSE IF ShowsRender
                                THEN [valid |-> TRUE, list |-> feedList]
                                ELSE NoSnapshot
        /\ UNCHANGED <<currentLang, feedLoaded, activeFeedFilter, activeSort,
                       pending, issued, cacheToken, lastGood, retried, sideVars>>

\* input event of the search box: the user has typed `value` (lines 477-479)
SearchInput(value) ==
    /\ applySearchTerm(Str(value), FALSE, value)
    /\ lastOp' = [Op("searchInput") EXCEPT !.value = Str(value)]

\* submit of the search form (lines 471-474)
SearchSubmit ==
    /\ applySearchTerm(Str(searchInputValue), TRUE, searchInputValue)
    /\ lastOp' = [Op("searchSubmit") EXCEPT !.value = Str(searchInputValue)]

\* click on the clear button of the search box (lines 482-485)
SearchClear ==
    /\ ~searchClearHidden
    /\ applySearchTerm(Str(<<>>), TRUE, searchInputValue)
    /\ lastOp' = [Op("searchClear") EXCEPT !.value = Str(<<>>)]

\* applySearchTerm called with a value that is not a string
CallApplySearchTerm(rawValue) ==
    /\ applySearchTerm(rawValue, FALSE, searchInputValue)
    /\ lastOp' = [Op("applySearchTerm") EXCEPT !.value = rawValue]

\* scroll event of the list (handleFeedScroll): only the scroll position
\* and the classes that follow it change
Scroll ==
    /\ lastOp' = Op("scroll")
    /\ UNCHANGED <<currentLang, feedLoaded, cachedEvents, activeFeedFilter, activeSort,
                   activeSearchTerm, activeSearchTermRaw, feedList, feedMessage,
                   feedFootnote, searchInputValue, searchClearHidden, pending, issued,
                   cacheToken, lastGood, preSearch, retried, sideVars>>

\* variant: the language change empties the search
LangChange_ClearsSearch(lang) ==
    /\ currentLang' = lang
    /\ activeSearchTerm' = <<>>
    /\ activeSearchTermRaw' = <<>>
    /\ searchInputValue' = <<>>
    /\ searchClearHidden' = TRUE
    /\ IF feedLoaded
       THEN renderFeed(feedLoaded, cachedEvents, activeFeedFilter, activeSort,
                       <<>>, currentLang')
       ELSE /\ feedMessage' = ""
            /\ feedFootnote' = ""
            /\ feedList' = feedList
            /\ cachedEvents' = cachedEvents
    /\ lastOp' = Op("lang")
    /\ preSearch' = NoSnapshot
    /\ UNCHANGED <<feedLoaded, activeFeedFilter, activeSort, pending, issued, cacheToken,
                   lastGood, retried, sideVars>>

\* the kaief:lang event with detail.lang = lang (lines 526-536)
LangChange(lang) ==
    /\ currentLang' = lang
    /\ searchInputValue' = activeSearchTermRaw
    /\ searchClearHidden' = (Len(activeSearchTerm) = 0)
    /\ IF feedLoaded
       THEN renderFeed(feedLoaded, cachedEvents, activeFeedFilter, activeSort,
                       activeSearchTerm, currentLang')
       ELSE /\ feedMessage' = ""
            /\ feedFootnote' = ""
            /\ feedList' = feedList
            /\ cachedEvents' = cachedEvents
    /\ lastOp' = Op("lang")
    /\ preSearch' = NoSnapshot
    /\ UNCHANGED <<feedLoaded, activeFeedFilter, activeSort,
                   activeSearchTerm, activeSearchTermRaw, pending, issued, cacheToken,
                   lastGood, retried, sideVars>>

----------------------------------------------------------------------------
(* Inputs *)

\* what the user types into the search box
SearchInputs ==
    { <<>>,
      <<" ", "A", "B">>,
      <<"b", " ", "c">>,
      <<"o", "b", "j", "e", "c", "t">>,
      <<"q">>,
      <<"t", "g">> }

\* values that are not strings
NonStrings == {Undef, Num(<<"5">>)}

\* the search inputs and filter chips exercised together with the loads
LoadSearchInputs == { <<>>, <<" ", "A", "B">> }
LoadFilterIds == {"all", "nmok"}

----------------------------------------------------------------------------
(* Specifications *)

\* the whole page: loads, their completions, retry and the query handlers
Next ==
    \/ \E forceReload \in BOOLEAN : EnsureFeed(forceReload)
    \/ \E token \in pending, resp \in Responses : FetchComplete(token, resp)
    \/ Retry
    \/ \E fid \in LoadFilterIds : FilterClick(fid)
    \/ \E value \in SortKeys : SortChange(value)
    \/ \E value \in LoadSearchInputs : SearchInput(value)
    \/ SearchSubmit
    \/ SearchClear
    \/ \E lang \in Langs : LangChange(lang)
    \/ Scroll

Spec == Init /\ [][Next]_vars

\* the page as the module drives it: ensureFeed runs once, at
\* initialisation (line 541), and again only through the reload of Retry
NextPage ==
    \/ \E token \in pending, resp \in Responses : FetchComplete(token, resp)
    \/ Retry
    \/ \E fid \in LoadFilterIds : FilterClick(fid)
    \/ \E value \in SortKeys : SortChange(value)
    \/ \E value \in LoadSearchInputs : SearchInput(value)
    \/ SearchSubmit
    \/ SearchClear
    \/ \E lang \in Langs : LangChange(lang)
    \/ Scroll

SpecPage == Init /\ [][NextPage]_vars

ViewIs(v) ==
    /\ feedList = v.list
    /\ feedMessage = v.message
    /\ feedFootnote = v.footnote

\* the page once its first load has succeeded with the array `events`
LoadedInit(lang, sort, events) ==
    /\ currentLang = lang
    /\ feedLoaded = TRUE
    /\ cachedEvents = events
    /\ activeFeedFilter = "all"
    /\ activeSort = sort
    /\ activeSearchTerm = <<>>
    /\ activeSearchTermRaw = <<>>
    /\ searchInputValue = <<>>
    /\ searchClearHidden = TRUE
    /\ ViewIs(ViewOf(Pipeline(events, "all", sort, <<>>, lang), <<>>, lang))
    /\ pending = {}
    /\ issued = 1
    /\ cacheToken = [token |-> 1, status |-> 200, kind |-> "array"]
    /\ lastGood = [token |-> 1, events |-> events]
    /\ lastOp = [Op("complete") EXCEPT !.status = 200, !.kind = "array"]
    /\ preSearch = NoSnapshot
    /\ retried = FALSE

InitQuery ==
    /\ \E lang \in Langs, sort \in SortKeys, events \in ResponseArrays :
          LoadedInit(lang, sort, events)
    /\ ExtractIdle /\ ParseIdle /\ ChatIdle

\* the query handlers over a loaded feed, with every chip and search input
NextQuery ==
    \/ EnsureFeed(FALSE)
    \/ \E fid \in FilterIds : FilterClick(fid)
    \/ \E value \in SortKeys : SortChange(value)
    \/ \E value \in SearchInputs : SearchInput(value)
    \/ SearchSubmit
    \/ SearchClear
    \/ \E lang \in Langs : LangChange(lang)
    \/ \E rawValue \in NonStrings : CallApplySearchTerm(rawValue)

SpecQuery == InitQuery /\ [][NextQuery]_vars

\* a loaded feed holding an arbitrary event array, re-sorted and re-rendered
InitSort ==
    /\ \E lang \in Langs, sort \in SortKeys, events \in SortArrays :
          LoadedInit(lang, sort, events)
    /\ ExtractIdle /\ ParseIdle /\ ChatIdle

NextSort ==
    \/ EnsureFeed(FALSE)
    \/ \E value \in SortKeys : SortChange(value)
    \/ \E lang \in Langs : LangChange(lang)

SpecSort == InitSort /\ [][NextSort]_vars

\* the feed variables, which a call of extractEvent leaves alone
feedVars ==
    <<currentLang, feedLoaded, cachedEvents, activeFeedFilter, activeSort,
      activeSearchTerm, activeSearchTermRaw, feedList, feedMessage, feedFootnote,
      searchInputValue, searchClearHidden, pending, issued, cacheToken, lastGood,
      lastOp, preSearch, retried>>

\* createFeedCard calls extractEvent(ev, currentLang)
Extract ==
    /\ extracted = NotRun
    /\ extracted' = extractEvent(extractArgs.ev, extractArgs.lang)
    /\ UNCHANGED <<feedVars, extractArgs, reExtracted, pvars, cvars>>

\* the result of the call is given to extractEvent again as a raw event
ReExtract ==
    /\ extracted.state = "value"
    /\ reExtracted = NotRun
    /\ reExtracted' = extractEvent(AsRaw(extracted.f), extractArgs.lang)
    /\ UNCHANGED <<feedVars, extractArgs, extracted, pvars, cvars>>

\* extractEvent on every modelled input, in the language of the page
InitExtract ==
    /\ \E lang \in Langs :
          /\ LoadedInit(lang, "recent", <<>>)
          /\ \E ev \in ExtractInputs : extractArgs = [ev |-> ev, lang |-> lang]
    /\ extracted = NotRun
    /\ reExtracted = NotRun
    /\ ParseIdle /\ ChatIdle

NextExtract == Extract \/ ReExtract

SpecExtract == InitExtract /\ [][NextExtract]_vars

\* getEventSortDate calls parseEventDateValue(candidate)
Parse ==
    /\ parseResult = NotParsed
    /\ parseResult' = parseEventDateValue(parseArgs.text)
    /\ UNCHANGED <<feedVars, xvars, parseArgs, cvars>>

\* parseEventDateValue on every modelled text
InitParse ==
    /\ \E lang \in Langs : LoadedInit(lang, "recent", <<>>)
    /\ ExtractIdle /\ ChatIdle
    /\ parseArgs \in ParseInputs
    /\ parseResult = NotParsed

NextParse == Parse

SpecParse == InitParse /\ [][NextParse]_vars

----------------------------------------------------------------------------
(* Chat handlers *)

\* the input event of the composer
TypeInput(value) ==
    /\ input' = value
    /\ chatOp' = [NoChatOp EXCEPT !.op = "input"]
    /\ UNCHANGED <<chatHistory, chatList, typingEl, inflight, sent>>
    /\ UNCHANGED <<feedVars, xvars, pvars>>

\* sendMessage() up to its await of fetch; at most `limit` requests are modelled
sendMessage(limit) ==
    LET text == trim(input)
        req == sent + 1
    IN  /\ IF text = <<>>
           THEN /\ chatOp' = [NoChatOp EXCEPT !.op = "blank"]
                /\ UNCHANGED <<input, chatHistory, chatList, typingEl, inflight, sent>>
           ELSE /\ sent < limit
                /\ chatList' = showTyping(addBubble(chatList, UserRow(req, escapeHTML(text))),
                                          typingEl, req)
                /\ chatHistory' = Append(chatHistory,
                                         [role |-> "user", content |-> Str(text), req |-> req])
                /\ input' = <<>>
                /\ typingEl' = req
                /\ inflight' = inflight \cup {req}
                /\ sent' = req
                /\ chatOp' = [NoChatOp EXCEPT !.op = "send", !.req = req]
        /\ UNCHANGED <<feedVars, xvars, pvars>>

\* the outcomes of fetch and res.json(): a rejection of either, or the
\* parsed body with its response field
Rejected == [ok |-> FALSE, response |-> Undef]
Data(response) == [ok |-> TRUE, response |-> response]

\* sendMessage() from the completion of its awaits to its end
Complete(req, outcome) ==
    /\ req \in inflight
    /\ inflight' = inflight \ {req}
    /\ typingEl' = 0
    /\ chatOp' = [op |-> "complete", req |-> req, ok |-> outcome.ok,
                  response |-> outcome.response]
    /\ IF outcome.ok
       THEN LET built == buildAssistantResponse(ResponsePayload(outcome.response),
                                                currentLang)
            IN  /\ chatHistory' = Append(chatHistory,
                                         [role |-> "assistant",
                                          content |-> outcome.response, req |-> req])
                /\ chatList' = addBubble(hideTyping(chatList, typingEl),
                                         IF built.thrown THEN ErrorRow(req)
                                         ELSE AssistantRow(req, built))
       ELSE /\ chatHistory' = chatHistory
            /\ chatList' = addBubble(hideTyping(chatList, typingEl), ErrorRow(req))
    /\ UNCHANGED <<input, sent>>
    /\ UNCHANGED <<feedVars, xvars, pvars>>

\* the texts typed into the composer
ChatInputs == {<<" ">>, <<" ", "a", "&">>}

\* an event with a title
TitledEvent == Rec([NoFields EXCEPT !.title = Str(<<"A">>)])

\* the values of the response field
ResponseValues ==
    {Str(<<"a", "<">>), Str(<<>>), JsNull, Undef, Num(<<"5">>), Arr(<<>>),
     Payload(Str(<<"a", "<">>), Undef),
     Payload(Reason(Str(<<"guk">>), Str(<<"a">>)), TitledEvent),
     Payload(Reason(Str(<<"guk">>), Undef), Arr(<<TitledEvent, EmptyObject>>)),
     Payload(Undef, EmptyObject)}

ChatOutcomes == {Rejected} \cup {Data(response) : response \in ResponseValues}

\* the outcomes exercised with overlapping requests
LoadOutcomes == {Rejected, Data(Str(<<"a", "<">>)), Data(JsNull)}

InitChat ==
    /\ \E lang \in Langs : LoadedInit(lang, "recent", <<>>)
    /\ ExtractIdle /\ ParseIdle /\ ChatIdle

\* the chat with requests that may overlap
NextChat ==
    \/ \E value \in ChatInputs : TypeInput(value)
    \/ sendMessage(MaxSends)
    \/ \E req \in inflight, outcome \in LoadOutcomes : Complete(req, outcome)

SpecChat == InitChat /\ [][NextChat]_vars

\* every request is resolved or rejected in the end
SpecChatLive ==
    /\ SpecChat
    /\ \A req \in 1..MaxSends :
          WF_vars(\E outcome \in LoadOutcomes : Complete(req, outcome))

\* the chat on every modelled value of the response field
NextReply ==
    \/ \E value \in ChatInputs : TypeInput(value)
    \/ sendMessage(MaxReplies)
    \/ \E req \in inflight, outcome \in ChatOutcomes : Complete(req, outcome)

SpecReply == InitChat /\ [][NextReply]_vars

----------------------------------------------------------------------------
(* Session cache: claims C1 - C6, checked under Spec *)

\* the step just taken completed a fetch
Completed == lastOp'.op = "complete"

\* the response of the completed fetch made the load fail: the fetch
\* rejected, or its body could not be parsed or read
FailedLoad == Completed /\ lastOp'.kind \in {"reject", "malformed", "null"}

\* the events the cards of a list show
ShownEvents(list) == [i \in 1..Len(list) |-> list[i].ev]

\* the cards are in the order of the comparator for sort and lang
Ordered(list, sort, lang) ==
    \A i \in 1..Len(list), j \in 1..Len(list) :
        i < j => CompareTable[sort, lang, list[i].ev, list[j].ev] <= 0

\* C1: ensureFeed(forceReload) issues a fetch of /events exactly when the
\* feed is not loaded or forceReload is true; once a load has succeeded
\* (the cache has a source), the feed stays loaded, and ensureFeed(false)
\* issues no fetch, leaves the cache alone and re-renders from it.
C1_FetchOnlyWhenNeeded ==
    [][ /\ cacheToken.token # 0 => feedLoaded
        /\ lastOp'.op = "ensureFeed" =>
             /\ (issued' = issued + 1 /\ pending' = pending \cup {issued + 1})
                    <=> (~feedLoaded \/ lastOp'.force)
             /\ (feedLoaded /\ ~lastOp'.force) =>
                    /\ issued' = issued
                    /\ pending' = pending
                    /\ cachedEvents' = cachedEvents
                    /\ View' = ViewOf(Pipeline(cachedEvents, activeFeedFilter, activeSort,
                                               activeSearchTerm, currentLang),
                                      activeSearchTerm, currentLang) ]_vars

\* ensureFeed(false) has run on a loaded feed: no fetch, cards on screen
C1_Witness ==
    /\ lastOp.op = "ensureFeed" /\ ~lastOp.force
    /\ feedLoaded /\ issued = 1 /\ pending = {}
    /\ Len(feedList) > 1 /\ feedList[1].kind = "card"

\* C2: when a load fails (the fetch rejects or its body cannot be used),
\* cachedEvents and feedLoaded keep their values and the error state with
\* the retry button is displayed.
C2_FailureKeepsCache ==
    [][ FailedLoad =>
          /\ cachedEvents' = cachedEvents
          /\ feedLoaded' = feedLoaded
          /\ feedMessage' = "error"
          /\ feedList' = <<>> ]_vars

\* a forced reload has failed on a body that does not parse: the events of
\* the earlier load are still cached
C2_Witness ==
    /\ lastOp.op = "complete" /\ lastOp.kind = "malformed"
    /\ feedLoaded /\ Len(cachedEvents) > 0
    /\ feedMessage = "error"

\* C3: a response with a status other than 200 is a load failure: the error
\* state is shown and its body is not installed as the cached collection,
\* even when the body is well-formed JSON.
C3_Non200IsFailure ==
    [][ (Completed /\ lastOp'.kind # "reject" /\ lastOp'.status # 200) =>
          /\ feedMessage' = "error"
          /\ cachedEvents' = cachedEvents
          /\ feedLoaded' = feedLoaded
          /\ cacheToken' = cacheToken ]_vars

\* C4: cachedEvents is always the initial empty collection or exactly the
\* event array of one successful response, and once every fetch has
\* completed it is the array of the successful response that completed last.
C4_CacheIsOneSuccessfulResponse ==
    /\ cacheToken.token = 0 => cachedEvents = <<>>
    /\ cacheToken.token # 0 =>
         cacheToken.status = 200 /\ cacheToken.kind \in {"noarray", "array"}
    /\ (pending = {} /\ lastGood.token # 0) => cachedEvents = lastGood.events

C6_RetryReloads ==
    [][ /\ FailedLoad => feedMessage' = "error"
        /\ lastOp'.op = "retry" =>
             /\ feedMessage = "error"
             /\ issued' = issued + 1 /\ pending' = {issued + 1}
             /\ feedMessage' = "loading"
        /\ (Completed /\ lastOp'.status = 200 /\ lastOp'.kind \in {"noarray", "array"}) =>
             /\ feedMessage' # "error"
             /\ cachedEvents' = lastGood'.events
             /\ \A e \in EventIds :
                    (\E i \in 1..Len(feedList') : feedList'[i] = createFeedCard(e, currentLang))
                    <=> (\E i \in 1..Len(cachedEvents') :
                            /\ cachedEvents'[i] = e
                            /\ Len(FilterBy(activeFeedFilter, <<e>>)) = 1
                            /\ Len(SearchBy(activeSearchTerm, <<e>>)) = 1)
             /\ Ordered(feedList', activeSort, currentLang) ]_vars

\* the load started by the retry button has succeeded and its events are
\* listed
C6_Witness ==
    /\ retried /\ lastOp.op = "complete" /\ lastOp.status = 200
    /\ feedLoaded /\ cacheToken.token = issued
    /\ Len(feedList) > 2 /\ feedMessage = ""

----------------------------------------------------------------------------
(* Query pipeline: claims C7 - C10, checked under SpecQuery *)

\* the search predicate as specified: one searchable field contains the
\* term; an array contains it when an element does, an object when the
\* joined string of its values does
FieldContains(x, term) ==
    CASE x.t = "str" -> includes(toLowerCase(x.v), term)
      [] x.t = "arr" -> \E k \in 1..Len(x.v) : includes(toLowerCase(x.v[k]), term)
      [] x.t = "obj" -> includes(toLowerCase(join(x.v, <<" ">>)), term)
      [] OTHER -> FALSE

SearchableFields ==
    {"title", "host", "organization", "category", "place", "location",
     "description", "deep_data", "overview", "tags", "keywords"}

EventContains(e, term) ==
    \E f \in SearchableFields : FieldContains(EventPool[e][f], term)

SearchOp == lastOp.op \in {"searchInput", "searchSubmit", "searchClear"}

Shown(e) == \E i \in 1..Len(feedList) : feedList[i].kind = "card" /\ feedList[i].ev = e

\* C7: whatever the cache and the query state, the rendered sequence is the
\* specified pipeline: category filter, then search filter, then sort.
C7_RenderIsFilterSearchSort ==
    ShowsRender =>
        /\ ShownEvents(feedList) =
             sortEvents(filterEventsBySearchTerm(filterEventsByActiveOption(cachedEvents)))
        /\ \A i \in 1..Len(feedList) :
               feedList[i] = createFeedCard(feedList[i].ev, currentLang)

\* a search has removed events from a filtered list sorted by date
C7_Witness ==
    /\ ShowsRender /\ activeSort = "recent" /\ activeFeedFilter = "nmok"
    /\ activeSearchTerm # <<>>
    /\ Len(feedList) >= 2
    /\ Len(feedList) < Len(FilterBy(activeFeedFilter, cachedEvents))

\* C8, first half: with a category filter active, a search term that no
\* filtered event contains leaves the rendered list empty.
C8_UnmatchedSearchIsEmpty ==
    (SearchOp /\ activeFeedFilter # "all" /\ activeSearchTerm # <<>>
        /\ \A i \in 1..Len(FilterBy(activeFeedFilter, cachedEvents)) :
               ~EventContains(FilterBy(activeFeedFilter, cachedEvents)[i], activeSearchTerm))
    => feedList = <<>>

\* C8, second half: setting the search term back to empty renders the
\* sequence that was rendered before the search began.
C8_ClearRestores ==
    (SearchOp /\ preSearch.valid /\ activeSearchTerm = <<>>) => feedList = preSearch.list

\* C8: with a category filter active, a search term that no filtered event
\* contains yields an empty list, and clearing the term then renders exactly
\* the sequence rendered before the search.
C8_SearchThenClear == C8_UnmatchedSearchIsEmpty /\ C8_ClearRestores

\* C9: the filter 'all' keeps every event, in order; under every other
\* filter id the events kept (same search term and sort) are among those
\* kept under 'all'.
C9_AllIsPassThrough ==
    /\ FilterBy("all", cachedEvents) = cachedEvents
    /\ (ShowsRender /\ activeFeedFilter = "all" /\ activeSearchTerm = <<>>) =>
           \A i \in 1..Len(cachedEvents) : Shown(cachedEvents[i])
    /\ \A fid \in FilterIds :
         \A i \in 1..Len(cachedEvents) :
           (\E j \in 1..Len(Pipeline(cachedEvents, fid, activeSort, activeSearchTerm,
                                     currentLang)) :
               Pipeline(cachedEvents, fid, activeSort, activeSearchTerm, currentLang)[j]
                   = cachedEvents[i])
           => (\E j \in 1..Len(Pipeline(cachedEvents, "all", activeSort, activeSearchTerm,
                                        currentLang)) :
                  Pipeline(cachedEvents, "all", activeSort, activeSearchTerm, currentLang)[j]
                      = cachedEvents[i])

\* a chip other than 'all' has been clicked and shows part of the cache
C9_Witness ==
    /\ lastOp.op = "filter" /\ activeFeedFilter = "nmok"
    /\ Len(feedList) > 0 /\ Len(feedList) < Len(cachedEvents)

\* C10: with a non-empty search term an event is kept if and only if one of
\* its searchable fields contains the term (title, host/organization,
\* category, place/location, description/overview, tags/keywords; an array
\* by any element, an object by the joined string of its values).
C10_KeptIffFieldContains ==
    (ShowsRender /\ activeSearchTerm # <<>>) =>
        \A i \in 1..Len(FilterBy(activeFeedFilter, cachedEvents)) :
            Shown(FilterBy(activeFeedFilter, cachedEvents)[i])
            <=> EventContains(FilterBy(activeFeedFilter, cachedEvents)[i], activeSearchTerm)

----------------------------------------------------------------------------
(* Ordering: claims C11 - C13, checked under SpecSort *)

\* getEventSortDate of every pool event
SortDateTable == [e \in EventIds |-> getEventSortDate(EventPool[e])]

\* the rendered list shows the cached events, each once
ShowsWholeCache ==
    /\ Len(feedList) = Len(cachedEvents)
    /\ \A i \in 1..Len(cachedEvents) :
           \E j \in 1..Len(feedList) : feedList[j] = createFeedCard(cachedEvents[i], currentLang)

\* C11: under 'recent' every rendered event with a resolvable date precedes
\* every event without one, and among dated events a later date never comes
\* after an earlier one.
C11_DatedFirstNewestFirst ==
    activeSort = "recent" =>
        /\ ShowsWholeCache
        /\ \A i, j \in 1..Len(feedList) :
               i < j =>
                  /\ SortDateTable[feedList[j].ev].ok => SortDateTable[feedList[i].ev].ok
                  /\ (SortDateTable[feedList[i].ev].ok /\ SortDateTable[feedList[j].ev].ok)
                        => SortDateTable[feedList[i].ev].at >= SortDateTable[feedList[j].ev].at

\* an undated event received first and two events of different dates
\* received oldest first are rendered newest first, the undated one last
C11_Witness ==
    /\ lastOp.op = "sort" /\ activeSort = "recent"
    /\ cachedEvents = <<5, 6, 3>>
    /\ feedList = <<createFeedCard(3, currentLang), createFeedCard(6, currentLang),
                    createFeedCard(5, currentLang)>>

\* C12: under 'recent' two events whose resolved dates are equal are
\* rendered in the alphabetical order of host, then title, whatever their
\* order in the cached collection.
C12_EqualDatesAlphabetical ==
    activeSort = "recent" =>
        \A i, j \in 1..Len(feedList) :
            (/\ i < j
             /\ SortDateTable[feedList[i].ev].ok /\ SortDateTable[feedList[j].ev].ok
             /\ SortDateTable[feedList[i].ev].at = SortDateTable[feedList[j].ev].at)
                => CompareTable["title", currentLang, feedList[i].ev, feedList[j].ev] <= 0

\* a comes no later than b by host (host, else organization), then title
HostTitleOrdered(a, b, locale) ==
    \/ localeCompare(StringOrEmpty(Or(a.host, a.organization)),
                     StringOrEmpty(Or(b.host, b.organization)), locale) < 0
    \/ /\ localeCompare(StringOrEmpty(Or(a.host, a.organization)),
                        StringOrEmpty(Or(b.host, b.organization)), locale) = 0
       /\ localeCompare(StringOrEmpty(a.title), StringOrEmpty(b.title), locale) <= 0

\* C13: under 'recent' two events without a resolvable date are rendered in
\* the alphabetical order of host, then title: with equal hosts the title A
\* comes before the title B whatever the input order.
C13_UndatedAlphabetical ==
    activeSort = "recent" =>
        /\ ShowsWholeCache
        /\ \A i, j \in 1..Len(feedList) :
               (/\ i < j
                /\ ~SortDateTable[feedList[i].ev].ok /\ ~SortDateTable[feedList[j].ev].ok)
                   => HostTitleOrdered(EventPool[feedList[i].ev], EventPool[feedList[j].ev],
                                       currentLang)

\* B then A of the same host, both undated, are rendered A then B
C13_Witness ==
    /\ lastOp.op = "sort" /\ activeSort = "recent"
    /\ cachedEvents = <<7, 8>>
    /\ feedList = <<createFeedCard(8, currentLang), createFeedCard(7, currentLang)>>

----------------------------------------------------------------------------
(* Empty states: claim C14, checked under SpecQuery *)

\* C14: when nothing is rendered, the search empty state is shown exactly
\* when the category filter alone keeps at least one event (the search
\* caused the emptiness), and the generic empty state when the filter or the
\* cache already yields no event.
C14_EmptyStateByCause ==
    (feedLoaded /\ feedList = <<>>) =>
        /\ feedMessage = "searchEmpty"
              <=> Len(filterEventsByActiveOption(cachedEvents)) > 0
        /\ feedMessage = "empty"
              <=> Len(filterEventsByActiveOption(cachedEvents)) = 0

----------------------------------------------------------------------------
(* Field extraction: claims C15, C16, C18 - C20, checked under SpecExtract *)

calledEv == extractArgs.ev
calledLang == extractArgs.lang
Returned == extracted # NotRun

\* a string value that is not empty after trimming
Present(x) == x.t = "str" /\ trim(x.v) # <<>>

\* the first of the values that is present, trimmed and escaped; the
\* fallback when none is
RECURSIVE FirstPresent(_, _)
FirstPresent(values, fallback) ==
    IF values = <<>> THEN escapeHTML(fallback)
    ELSE IF Present(Head(values)) THEN escapeHTML(trim(Head(values).v))
    ELSE FirstPresent(Tail(values), fallback)

\* C15: extractEvent returns null only for an input that is not a record;
\* for a record, in either language, it returns a result whose title is a
\* non-empty string.
C15_NullOnlyForNonRecord ==
    Returned =>
        /\ extracted.state = "null" => calledEv.t # "rec"
        /\ calledEv.t = "rec" => extracted.state = "value" /\ extracted.f.title # <<>>

\* a record whose title is blank has been given the placeholder title
C15_Witness ==
    /\ calledEv.t = "rec" /\ calledEv.v.title = Str(<<" ">>) /\ calledEv.v.title_en = Undef
    /\ extracted.state = "value"
    /\ extracted.f.title = Translations(calledLang).unknownTitle

\* C16: extracting again, in the same language, the string fields of an
\* extracted event gives the same field values.
C16_Idempotent ==
    reExtracted # NotRun => reExtracted = extracted

\* C18: for the language en the title is the first of title_en, title that
\* is not empty after trimming; an empty or blank title_en falls through to
\* title, not to the placeholder.
C18_TitleChainEn ==
    (Returned /\ calledLang = "en" /\ calledEv.t = "rec") =>
        extracted.f.title =
            FirstPresent(<<calledEv.v.title_en, calledEv.v.title>>, Translations(calledLang).unknownTitle)

\* C19: the schedule is the first non-empty value of the period variant of
\* the language, the base period, the date and the datetime; an event with
\* no period but a date or a datetime has a non-empty schedule.
C19_ScheduleChain ==
    (Returned /\ calledEv.t = "rec") =>
        extracted.f.schedule =
            FirstPresent((IF calledLang = "en" THEN <<calledEv.v.period_en>> ELSE <<>>)
                            \o <<calledEv.v.period, calledEv.v.date, calledEv.v.datetime>>, <<>>)

\* the status as specified: state when present, else status, translated
\* for the language en
SpecStatus(state, status, to) ==
    IF Present(state) THEN StatusOf(Str(trim(state.v)), to)
    ELSE IF Present(status) THEN StatusOf(Str(trim(status.v)), to)
    ELSE Str(<<>>)

\* C20: the status is state when that is not empty after trimming, else
\* status; for the language en the three Korean status words are rendered
\* as Ongoing, Finished and Upcoming, and any other value unchanged in both
\* languages.
C20_StatusChain ==
    (Returned /\ calledEv.t = "rec") =>
        extracted.f.status = escapeHTML(SpecStatus(calledEv.v.state, calledEv.v.status, calledLang).v)

----------------------------------------------------------------------------
(* The cached collection: claim C17, checked under Spec *)

\* the handlers that render, filter, search, sort or change the language
QueryOps ==
    {"ensureFeed", "filter", "sort", "searchInput", "searchSubmit", "searchClear", "lang"}

\* C17: once a load has succeeded, no render, filter, search, sort or
\* language change alters the cached collection: its elements and their
\* order stay as received until a later load replaces them.
C17_CacheImmutable ==
    [][ (feedLoaded /\ lastOp'.op \in QueryOps) => cachedEvents' = cachedEvents ]_vars

\* a sort change has rendered the events in another order than the cache
\* holds them, which is still the order of the response
C17_Witness ==
    /\ feedLoaded /\ lastOp.op = "sort" /\ activeFeedFilter = "all"
    /\ Len(feedList) = Len(cachedEvents)
    /\ \E i \in 1..Len(feedList) : feedList[i].ev # cachedEvents[i]
    /\ cachedEvents = lastGood.events

----------------------------------------------------------------------------
(* Cost: claim C21, checked under SpecExtract *)

\* String(cost).trim() of the record extracted
TrimmedCost == trim(JsString(calledEv.v.cost))

\* C21: the cost is the free label of the language exactly when the trimmed
\* cost is '0', the Korean word for free or 'free' in any letter case (the
\* number 0 included); any other non-empty trimmed cost is rendered as that
\* value, HTML-escaped; an absent, null or blank cost is the empty string.
C21_CostRendering ==
    (Returned /\ calledEv.t = "rec") =>
        /\ (calledEv.v.cost = Undef \/ TrimmedCost = <<>>) => extracted.f.cost = <<>>
        /\ (calledEv.v.cost # Undef /\ TrimmedCost # <<>>) =>
              IF toLowerCase(TrimmedCost) \in {<<"0">>, <<"mu", "ryo">>, <<"f", "r", "e", "e">>}
              THEN extracted.f.cost = Translations(calledLang).costFree
              ELSE /\ extracted.f.cost = escapeHTML(TrimmedCost)
                   /\ extracted.f.cost # Translations(calledLang).costFree

\* the numeric cost 0 has been rendered as Free
C21_Witness ==
    /\ calledEv.t = "rec" /\ calledEv.v.cost = Num(<<"0">>) /\ calledLang = "en"
    /\ extracted.state = "value"
    /\ extracted.f.cost = <<"F", "r", "e", "e">>

----------------------------------------------------------------------------
(* Date parsing: claim C22, checked under SpecParse *)

\* C22: the patterns are tried in the order full date, compact date,
\* month-day: a full date and the same date in 8 digits give that date, its
\* month-day form gives the same month and day in the current year, and a
\* value that is empty or has no date pattern gives null.
C22_PatternCascade ==
    parseResult # NotParsed =>
        /\ parseArgs.form \in {"full", "compact"} =>
              parseResult = SomeDate(NewDate(parseArgs.y, parseArgs.m - 1, parseArgs.d))
        /\ parseArgs.form = "monthDay" =>
              parseResult = SomeDate(NewDate(ReferenceYear, parseArgs.m - 1, parseArgs.d))
        /\ parseArgs.form = "none" => parseResult = NullDate

\* 2025.03.14 has been parsed to 14 March 2025
C22_Witness ==
    /\ parseArgs.text = Str(<<"2", "0", "2", "5", ".", "0", "3", ".", "1", "4">>)
    /\ parseResult = SomeDate(NewDate(2025, 2, 14))

----------------------------------------------------------------------------
(* Rendering against the current state: claim C24, checked under SpecPage *)

\* the view renderFeed builds from the state after the step
CurrentView ==
    ViewOf(Pipeline(cachedEvents', activeFeedFilter', activeSort', activeSearchTerm',
                    currentLang'),
           activeSearchTerm', currentLang')

\* C24: when a successful fetch completes, the list rendered is the pipeline
\* over the new cache under the filter, sort, search term and language of
\* that moment; after every later filter, sort, search or language event it
\* is the pipeline over the current cache and query state.
C24_RendersCurrentState ==
    [][ /\ (Completed /\ lastOp'.status = 200 /\ lastOp'.kind \in {"noarray", "array"})
              => View' = CurrentView
        /\ (feedLoaded /\ lastOp'.op \in {"filter", "sort", "searchInput", "searchSubmit",
                                           "searchClear", "lang"})
              => View' = CurrentView ]_vars

\* the first load has completed after the filter and the search term were
\* changed while it was in flight: the list shows the filtered, searched events
C24_Witness ==
    /\ lastOp.op = "complete" /\ issued = 1 /\ feedLoaded
    /\ activeFeedFilter = "nmok" /\ activeSearchTerm # <<>>
    /\ Len(feedList) > 0 /\ Len(feedList) < Len(cachedEvents)

----------------------------------------------------------------------------
(* Query state: claims C25 - C27 *)

\* C25: the active filter, the active sort and the search term change only
\* in the handlers of the filter chips, the sort select and the search box
\* (and with the page itself, when Retry reloads it): a fetch being issued,
\* succeeding or failing, a language change and a scroll leave them alone.
C25_QueryStateFrame ==
    [][ lastOp'.op \notin {"filter", "sort", "searchInput", "searchSubmit", "searchClear",
                           "retry"}
          => UNCHANGED <<activeFeedFilter, activeSort, activeSearchTerm>> ]_vars

\* the language has changed while a filter and a search term were set
C25_Witness ==
    /\ lastOp.op = "lang" /\ activeFeedFilter = "nmok" /\ activeSearchTerm # <<>>

\* C26: after any calls of applySearchTerm, activeSearchTerm is the
\* lower-cased activeSearchTermRaw, activeSearchTermRaw is the trimmed value
\* of the last call (empty for a value that is no string), and the clear
\* button is hidden exactly when activeSearchTerm is empty.
C26_SearchTermInvariant ==
    /\ activeSearchTerm = toLowerCase(activeSearchTermRaw)
    /\ lastOp.op \in {"searchInput", "searchSubmit", "searchClear", "applySearchTerm"}
          => activeSearchTermRaw =
                 trim(IF lastOp.value.t = "str" THEN lastOp.value.v ELSE <<>>)
    /\ searchClearHidden <=> activeSearchTerm = <<>>

\* a call with a number after a search for " AB": the term is empty again
C26_Witness ==
    /\ lastOp.op = "applySearchTerm" /\ lastOp.value = Num(<<"5">>)
    /\ activeSearchTermRaw = <<>> /\ searchClearHidden
    /\ preSearch.valid

\* C27: once the initial load has failed, the error state with its retry
\* button stays displayed under every filter click, sort change, search
\* input and language change, until a new load is started.
C27_ErrorStateStays ==
    [][ (~feedLoaded /\ feedMessage = "error"
           /\ lastOp'.op \in {"filter", "sort", "searchInput", "searchSubmit",
                               "searchClear", "lang"})
          => feedMessage' = "error" ]_vars

----------------------------------------------------------------------------
(* Chat: claims C23, C28 - C30 *)

\* the row the last completion appended
LastRow == chatList[Len(chatList)]

\* C23: whatever the response field holds (a string, a structured object,
\* null, nothing, another type), the completion displays an assistant
\* message built from it and not the error bubble; a bare string is shown as
\* the reason in both languages with an empty recommended event.
C23_ResponseCoerced ==
    (chatOp.op = "complete" /\ chatOp.ok)
      => /\ LastRow.kind = "assistant"
         /\ chatOp.response.t = "str"
              => /\ LastRow.html = escapeHTML(chatOp.response.v)
                 /\ LastRow.cards = <<"noEvent">>

\* the roles of chat_history alternate from user on, and every assistant
\* entry follows the user entry of its own request
Alternates(history) ==
    \A i \in 1..Len(history) :
        /\ history[i].role = (IF i % 2 = 1 THEN "user" ELSE "assistant")
        /\ history[i].role = "assistant" => history[i].req = history[i - 1].req

\* C28: after any sends and completions, in any interleaving, chat_history
\* strictly alternates roles starting with user, and every assistant entry
\* directly follows the user entry it answers.
C28_HistoryAlternates == Alternates(chatHistory)

TypingRows == {i \in 1..Len(chatList) : chatList[i].kind = "typing"}

\* C29: the typing indicator is in the chat list exactly while a request is
\* in flight, and there is never more than one.
C29_TypingWhileInFlight ==
    /\ Cardinality(TypingRows) <= 1
    /\ (TypingRows # {}) <=> (inflight # {})

BubblesIn(list, kinds, req) ==
    Cardinality({i \in 1..Len(list) : list[i].kind \in kinds /\ list[i].req = req})

UserBubbles(req) == BubblesIn(chatList, {"user"}, req)

AssistantBubbles(req) == BubblesIn(chatList, {"assistant", "error"}, req)

\* C30: a sendMessage with non-blank input appends exactly one user bubble
\* at once and, once its request has resolved or rejected, exactly one
\* assistant bubble (a response or the error bubble), which every request
\* that completes in the end gets; a sendMessage with blank input appends
\* nothing, sends nothing and leaves the history as it is.
C30_OneBubbleEach ==
    /\ [](\A req \in 1..sent :
             /\ UserBubbles(req) = 1
             /\ AssistantBubbles(req) = (IF req \in inflight THEN 0 ELSE 1))
    /\ [][chatOp'.op = "send"
            => /\ Len(chatList') = Len(chatList) + (IF typingEl = 0 THEN 2 ELSE 1)
               /\ BubblesIn(chatList', {"user"}, sent') = 1
               /\ BubblesIn(chatList, {"user"}, sent') = 0]_vars
    /\ [][chatOp'.op = "blank"
            => UNCHANGED <<chatList, chatHistory, inflight, sent, typingEl>>]_vars
    /\ \A req \in 1..MaxSends : (sent >= req) ~> (AssistantBubbles(req) = 1)

\* both of two overlapping requests have completed, one of them rejected,
\* and a blank send was the last thing to happen
C30_Witness ==
    /\ sent = 2 /\ inflight = {} /\ chatOp.op = "blank"
    /\ \E i, j \in 1..Len(chatList) :
          /\ i < j /\ chatList[i].kind = "user" /\ chatList[j].kind = "user"
          /\ \A k \in i..j : chatList[k].kind \in {"user", "typing"}
    /\ \E i \in 1..Len(chatList) : chatList[i].kind = "error"

====
